---- MODULE Spec2Model ----
(***************************************************************************)
(* Strawberry: the tokenizer / tree builder (src/src/lexer.rs) and the     *)
(* evaluator (src/src/parser.rs).                                          *)
(*                                                                         *)
(* Source text is a TLA+ string; TLC treats a string as a sequence of      *)
(* characters, so source[i] is SubSeq(source, i, i), a one-character       *)
(* string.  Only ASCII text is modelled, so a character index is also the  *)
(* byte offset the code slices the source with.                            *)
(*                                                                         *)
(* A call of the scanner returns a record                                  *)
(*     [kind, st, ...]   kind \in {"Ok", "Err", "Panic", "Hang"}           *)
(* "Ok" carries the token (tok), "Err" the SyntaxError message (msg),      *)
(* "Panic" a Rust panic (unwrap of an Err, usize underflow) and "Hang" a   *)
(* loop that never ends.  st is the lexer as the call left it: the code    *)
(* mutates the lexer in place, so its changes survive an Err.              *)
(***************************************************************************)
EXTENDS Integers, Sequences, FiniteSets, TLC

VARIABLES
    source,      \* StrawberryLexer.source
    index,       \* StrawberryLexer.index
    tokens,      \* StrawberryLexer.tokens, the operand stack
    events,      \* history variable: what the scan met (no counterpart in the code)
    pc,          \* where the run of load_file is
    outcome,     \* what run_stream returned
    value,       \* what run_token_stream returned
    parser_variables,  \* StrawberryParser.variables
    parser_tokens,     \* the tokens run_token_stream has still to evaluate
    parser_last        \* run_token_stream's last_result

vars == <<source, index, tokens, events, pc, outcome, value,
          parser_variables, parser_tokens, parser_last>>

----------------------------------------------------------------------------
(* Characters *)

None == ""
Quote == "'"
Backtick == SubSeq("`'", 1, 1)

Whitespace == {" ", "\n", "\t"}
Digits == {"0", "1", "2", "3", "4", "5", "6", "7", "8", "9"}
Letters == {"a", "b", "c", "d", "e", "f", "g", "h", "i", "j", "k", "l", "m",
            "n", "o", "p", "q", "r", "s", "t", "u", "v", "w", "x", "y", "z"}
operators == {"=", "!", "<", ">", "+", "-", "*", "/"}

is_whitespace(c) == c \in Whitespace
is_digit(c) == c \in Digits
is_alphabetic(c) == c \in Letters
is_alphanumeric(c) == c \in Letters \cup Digits

----------------------------------------------------------------------------
(* The lexer: StrawberryLexer {source, index, tokens}, and the history set. *)

Lexer(src, idx, toks, evs) ==
    [source |-> src, index |-> idx, tokens |-> toks, events |-> evs]

from_string(src) == Lexer(src, -1, <<>>, {})

CharAt(src, i) == IF i >= 0 /\ i < Len(src) THEN SubSeq(src, i + 1, i + 1) ELSE None

current_character(st) == CharAt(st.source, st.index)

next_character(st) == [st EXCEPT !.index = @ + 1]

peek_character(st) == CharAt(st.source, st.index)

Slice(src, start, end) == SubSeq(src, start + 1, end)

TokenSpan(st, start, end) ==
    [start |-> start, end |-> end, text |-> Slice(st.source, start, end)]

Push(st, tok) == [st EXCEPT !.tokens = Append(@, tok)]

Pop(st) == [st EXCEPT !.tokens = IF Len(@) = 0 THEN @ ELSE SubSeq(@, 1, Len(@) - 1)]

Top(st) == IF Len(st.tokens) = 0 THEN <<>> ELSE <<st.tokens[Len(st.tokens)]>>

Note(st, ev) == [st EXCEPT !.events = @ \cup {ev}]

Ok(st, tok) == [kind |-> "Ok", st |-> st, tok |-> tok]
Err(st, msg) == [kind |-> "Err", st |-> st, msg |-> msg]
Panic(st, msg) == [kind |-> "Panic", st |-> st, msg |-> msg]
Hang(st) == [kind |-> "Hang", st |-> st, msg |-> "high_skip_whitespace"]

RECURSIVE SkipWhile(_, _, _)
SkipWhile(src, i, chars) ==
    IF CharAt(src, i) \in chars THEN SkipWhile(src, i + 1, chars) ELSE i

RECURSIVE SkipUntil(_, _, _)
SkipUntil(src, i, chars) ==
    IF CharAt(src, i) = None \/ CharAt(src, i) \in chars THEN i
    ELSE SkipUntil(src, i + 1, chars)

skip_whitespace(st) ==
    [st EXCEPT !.index = SkipWhile(st.source, st.index, Whitespace)]

high_skip_whitespace(st) ==
    LET c == current_character(st) IN
    IF c = None THEN Ok(st, <<>>)
    ELSE IF is_whitespace(c) THEN Ok(next_character(st), <<>>)
    ELSE Hang(st)

----------------------------------------------------------------------------
(* Numbers: an f64 is modelled by the rational it denotes, [n, d] in       *)
(* lowest terms with d > 0 (rounding is not modelled).                     *)

RECURSIVE Gcd(_, _)
Gcd(a, b) == IF b = 0 THEN a ELSE Gcd(b, a % b)

Abs(a) == IF a < 0 THEN -a ELSE a

Rat(n, d) ==
    LET s == IF d < 0 THEN -1 ELSE 1
        g == Gcd(Abs(n), Abs(d))
    IN  [n |-> (s * n) \div g, d |-> (s * d) \div g]

RECURSIVE Pow10(_)
Pow10(k) == IF k = 0 THEN 1 ELSE 10 * Pow10(k - 1)

DigitVal(c) == (CHOOSE i \in 1..10 : SubSeq("0123456789", i, i) = c) - 1

RECURSIVE DigitsVal(_)
DigitsVal(s) ==
    IF Len(s) = 0 THEN 0
    ELSE 10 * DigitsVal(SubSeq(s, 1, Len(s) - 1)) + DigitVal(SubSeq(s, Len(s), Len(s)))

ParseF64(s) ==
    LET dot == SkipUntil(s, 0, {"."})
        whole == SubSeq(s, 1, dot)
        frac == SubSeq(s, dot + 2, Len(s))
    IN  Rat(DigitsVal(whole) * Pow10(Len(frac)) + DigitsVal(frac), Pow10(Len(frac)))

Negate(num) == [num EXCEPT !.n = -@]

----------------------------------------------------------------------------
(* Tokens *)

Number(num, span) == [kind |-> "Number", num |-> num, span |-> span]
LiteralString(text, span) == [kind |-> "LiteralString", text |-> text, span |-> span]
Identifier(name, span) == [kind |-> "Identifier", name |-> name, span |-> span]
Boolean(b, span) == [kind |-> "Boolean", bool |-> b, span |-> span]
Attribution(span) == [kind |-> "Attribution", span |-> span]
BracketScope(items, span) == [kind |-> "BracketScope", items |-> items, span |-> span]
Call(name, args, span) == [kind |-> "Call", name |-> name, args |-> args, span |-> span]
LetToken(name, val, span) == [kind |-> "Let", name |-> name, value |-> val, span |-> span]
FunctionToken(name, params, body, span) ==
    [kind |-> "Function", name |-> name, params |-> params, body |-> body, span |-> span]
Expression(op, left, right, span) ==
    [kind |-> "Expression", op |-> op, left |-> left, right |-> right, span |-> span]
Comparison(op, left, right, span) ==
    [kind |-> "Comparison", op |-> op, left |-> left, right |-> right, span |-> span]

ExpressionKind == {"Add", "Subtract", "Multiply", "Divide"}
ComparisonKind ==
    {"Equal", "NotEqual", "GreaterThan", "LessThan", "GreaterEqual", "LessEqual"}

----------------------------------------------------------------------------
(* Literals *)

parse_multiline_string(st) ==
    LET start == st.index
        close == SkipUntil(st.source, start + 1, {Backtick})
        s1 == [st EXCEPT !.index = close]
    IN  IF current_character(s1) # Backtick
        THEN Err(Note(s1, "string unterminated"), "Missing backtick at the end of the string")
        ELSE LET s2 == next_character(s1) IN
             Ok(s2, LiteralString(Slice(st.source, start + 1, close),
                                  TokenSpan(s2, start, s2.index)))

parse_literal_string(st) ==
    LET start == st.index
        close == SkipUntil(st.source, start + 1, {Quote, "\n"})
        s1 == [st EXCEPT !.index = close]
    IN  IF current_character(s1) # Quote
        THEN Err(Note(s1, "string unterminated"), "Missing quote at the end of the string")
        ELSE LET s2 == next_character(s1) IN
             Ok(s2, LiteralString(Slice(st.source, start + 1, close),
                                  TokenSpan(s2, start, s2.index)))

parse_number(st) ==
    LET start == st.index
        i1 == SkipWhile(st.source, start, Digits)
        end == IF CharAt(st.source, i1) = "."
               THEN SkipWhile(st.source, i1 + 1, Digits) ELSE i1
        number_str == Slice(st.source, start, end)
        s1 == [st EXCEPT !.index = end]
    IN  IF SkipWhile(number_str, 0, {"."}) = Len(number_str)
        THEN Err(s1, "is not a valid number")
        ELSE Ok(s1, Number(ParseF64(number_str), TokenSpan(s1, start, end)))

----------------------------------------------------------------------------
(* The scanner, one operator per function of the lexer.                     *)

RECURSIVE next_token(_)
RECURSIVE parse_bracket_scope(_)
RECURSIVE parse_symbol(_)
RECURSIVE parse_operator(_)

Aborted(r) == r.kind \in {"Panic", "Hang"}

(* for _ in 1..index { tokens.pop() }, then reverse:   the last index - 1   *)
(* tokens of the stack (fewer when the stack is shorter), in stack order.   *)
PopMany(st, count) ==
    LET have == Len(st.tokens)
        k == IF count < have THEN count ELSE have
    IN  [st |-> [st EXCEPT !.tokens = SubSeq(@, 1, have - k)],
         popped |-> SubSeq(st.tokens, have - k + 1, have)]

RECURSIVE ScopeLoop(_, _)
ScopeLoop(st, count) ==
    LET c == current_character(st) IN
    IF c = None \/ c = "}" THEN [kind |-> "Done", st |-> st, index |-> count]
    ELSE IF is_whitespace(c) THEN ScopeLoop(next_character(st), count)
    ELSE LET r == next_token(st) IN
         CASE r.kind = "Ok" -> ScopeLoop(Push(r.st, r.tok), count + 1)
           [] r.kind = "Err" ->
                [kind |-> "Done", st |-> Note(r.st, "block child failed"), index |-> count]
           [] OTHER -> r

parse_bracket_scope(st) ==
    LET start == st.index
        loop == ScopeLoop(next_character(st), 1)
    IN  IF Aborted(loop) THEN loop
        ELSE IF current_character(loop.st) # "}"
        THEN Err(IF current_character(loop.st) = None
                 THEN Note(loop.st, "block unterminated") ELSE loop.st,
                 "Scope was not closed")
        ELSE LET s1 == next_character(loop.st)
                 p == PopMany(s1, loop.index - 1)
             IN  Ok(p.st, BracketScope(p.popped, TokenSpan(s1, start, s1.index)))

RECURSIVE LetValueLoop(_)
LetValueLoop(st) ==
    LET c == current_character(st) IN
    IF c = None \/ c = ";" THEN [kind |-> "Done", st |-> st]
    ELSE IF is_whitespace(c) THEN LetValueLoop(next_character(st))
    ELSE LET r == next_token(st) IN
         IF r.kind = "Ok" THEN LetValueLoop(Push(r.st, r.tok)) ELSE r

LetValue(st, variable_name) ==
    LET loop == LetValueLoop(st) IN
    IF loop.kind # "Done" THEN loop
    ELSE IF current_character(loop.st) # ";"
    THEN Err(loop.st, "Let statement was expecting a semicolon")
    ELSE LET s1 == next_character(loop.st) IN
         IF Top(s1) = <<>>
         THEN Err(s1, "Let statement was expecting a value")
         ELSE Ok(Pop(s1), [name |-> variable_name, value |-> Top(s1)])

LetBranch(st) ==
    LET h1 == high_skip_whitespace(st) IN
    IF Aborted(h1) THEN h1 ELSE
    LET variable_name == next_token(h1.st) IN
    IF Aborted(variable_name) THEN variable_name
    ELSE IF variable_name.kind = "Err"
    THEN Err(variable_name.st, "Set a variable name at the \"let\" statement")
    ELSE IF variable_name.tok.kind # "Identifier"
    THEN Err(variable_name.st, "Let statement was expecting an identifier.")
    ELSE
    LET h2 == high_skip_whitespace(variable_name.st) IN
    IF Aborted(h2) THEN h2 ELSE
    LET operator_token == next_token(h2.st) IN
    IF Aborted(operator_token) THEN operator_token
    ELSE IF operator_token.kind = "Ok" /\ operator_token.tok.kind = "Attribution"
    THEN LetValue(operator_token.st, variable_name.tok.name)
    ELSE Ok(IF operator_token.kind = "Err"
            THEN Note(operator_token.st, "let token failed")
            ELSE operator_token.st,
            [name |-> variable_name.tok.name, value |-> <<>>])

ParamName(arg) == IF arg.kind = "Identifier" THEN arg.name ELSE ""

FunctionBranch(st) ==
    LET h1 == high_skip_whitespace(st) IN
    IF Aborted(h1) THEN h1 ELSE
    LET function_name == next_token(h1.st) IN
    IF Aborted(function_name) THEN function_name
    ELSE IF function_name.kind = "Err"
    THEN Err(function_name.st, "Expected a function name after 'function'")
    ELSE IF function_name.tok.kind # "Call"
    THEN Err(function_name.st, "Malformed function")
    ELSE
    LET h2 == high_skip_whitespace(function_name.st) IN
    IF Aborted(h2) THEN h2
    ELSE IF current_character(h2.st) # "{"
    THEN Err(h2.st, "Expected '{' to start the function body.")
    ELSE
    LET function_body == parse_bracket_scope(h2.st) IN
    IF function_body.kind # "Ok" THEN function_body
    ELSE Ok(function_body.st,
            [name |-> function_name.tok.name,
             params |-> [i \in 1..Len(function_name.tok.args) |->
                            ParamName(function_name.tok.args[i])],
             body |-> function_body.tok])

RECURSIVE CallLoop(_, _)
CallLoop(st, count) ==
    LET c == current_character(st) IN
    IF c = None \/ c = ")" THEN [kind |-> "Done", st |-> st, index |-> count]
    ELSE IF c = "," \/ is_whitespace(c) THEN CallLoop(next_character(st), count)
    ELSE LET r == next_token(st) IN
         CASE r.kind = "Ok" ->
                CallLoop(Push(r.st, r.tok),
                         IF r.tok.kind = "Expression" THEN count ELSE count + 1)
           [] r.kind = "Err" ->
                [kind |-> "Done", st |-> Note(r.st, "call argument failed"), index |-> count]
           [] OTHER -> r

CallBranch(st) ==
    LET loop == CallLoop(next_character(st), 1) IN
    IF Aborted(loop) THEN loop
    ELSE IF current_character(loop.st) # ")"
    THEN Err(loop.st, "Function call was not closed")
    ELSE LET p == PopMany(next_character(loop.st), loop.index - 1) IN
         Ok(p.st, p.popped)

parse_symbol(st) ==
    LET start == st.index
        s1 == [st EXCEPT !.index = SkipWhile(st.source, start, Letters \cup Digits \cup {"_"})]
        symbol_name == Slice(st.source, start, s1.index)
    IN  CASE symbol_name = "let" ->
               LET r == LetBranch(s1) IN
               IF r.kind # "Ok" THEN r
               ELSE Ok(r.st, LetToken(r.tok.name, r.tok.value,
                                      TokenSpan(r.st, start, r.st.index)))
          [] symbol_name = "function" ->
               LET r == FunctionBranch(s1) IN
               IF r.kind # "Ok" THEN r
               ELSE Ok(r.st, FunctionToken(r.tok.name, r.tok.params, r.tok.body,
                                           TokenSpan(r.st, start, r.st.index)))
          [] symbol_name \in {"true", "false"} ->
               Ok(s1, Boolean(symbol_name = "true", TokenSpan(s1, start, s1.index)))
          [] OTHER ->
               IF peek_character(s1) = "("
               THEN LET r == CallBranch(s1) IN
                    IF r.kind # "Ok" THEN r
                    ELSE Ok(r.st, Call(symbol_name, r.tok,
                                       TokenSpan(r.st, start, r.st.index)))
               ELSE Ok(s1, Identifier(symbol_name, TokenSpan(s1, start, s1.index)))

(* The operator runs that fold, with the node each builds. Minus is apart:  *)
(* it is the one branch that unwraps its right operand.                     *)
FoldKind(operator) ==
    CASE operator = "+" -> [node |-> "Expression", op |-> "Add"]
      [] operator = "*" -> [node |-> "Expression", op |-> "Multiply"]
      [] operator = "/" -> [node |-> "Expression", op |-> "Divide"]
      [] operator = "-" -> [node |-> "Expression", op |-> "Subtract"]
      [] operator = "==" -> [node |-> "Comparison", op |-> "Equal"]
      [] operator = "!=" -> [node |-> "Comparison", op |-> "NotEqual"]
      [] operator = ">=" -> [node |-> "Comparison", op |-> "GreaterEqual"]
      [] operator = "<=" -> [node |-> "Comparison", op |-> "LessEqual"]
      [] operator = ">" -> [node |-> "Comparison", op |-> "GreaterThan"]
      [] operator = "<" -> [node |-> "Comparison", op |-> "LessThan"]
      [] OTHER -> [node |-> "Unknown", op |-> operator]

Recognized(c) == c \in {Quote, Backtick, "{"} \cup operators \cup Digits \cup Letters

(* start -= (left_operand.span.end - left_operand.span.start) + 1 *)
FoldStart(start, left_operand) ==
    start - ((left_operand.span.end - left_operand.span.start) + 1)

(* let last_token = self.tokens.pop(); skip whitespace; let next_token =    *)
(* self.next_token(): the two operands of every folding branch.             *)
(* Operands with the left operand read but left on the stack *)
OperandsKeep(st) ==
    LET s1 == skip_whitespace(st)
        s2 == IF Recognized(current_character(s1)) THEN s1
              ELSE Note(s1, "right operand missing")
    IN  [last_token |-> Top(st), next_token |-> next_token(s2)]

Operands(st) ==
    LET s1 == skip_whitespace(Pop(st))
        s2 == IF Recognized(current_character(s1)) THEN s1
              ELSE Note(s1, "right operand missing")
    IN  [last_token |-> Top(st), next_token |-> next_token(s2)]

Fold(st, start, kind) ==
    LET o == Operands(st)
        r == o.next_token
    IN  IF Aborted(r) THEN r
        ELSE IF o.last_token # <<>> /\ r.kind = "Ok"
        THEN LET left_operand == o.last_token[1]
                 new_start == FoldStart(start, left_operand)
             IN  IF new_start < 0
                 THEN Panic(r.st, "attempt to subtract with overflow")
                 ELSE Ok(r.st,
                         [kind |-> kind.node, op |-> kind.op,
                          left |-> left_operand, right |-> r.tok,
                          span |-> TokenSpan(r.st, new_start, r.st.index)])
        ELSE Err(r.st, "The operator does not exists.")

Minus(st, start) ==
    LET o == Operands(st)
        r == o.next_token
    IN  IF Aborted(r) THEN r
        ELSE IF o.last_token # <<>> /\ r.kind = "Ok"
        THEN Fold(st, start, FoldKind("-"))
        ELSE IF r.kind = "Err"
        THEN Panic(r.st, "called Result::unwrap() on an Err value")
        ELSE IF r.tok.kind = "Number"
        THEN Ok(r.st, Number(Negate(r.tok.num), TokenSpan(r.st, start, r.st.index)))
        ELSE Err(Note(r.st, "unary minus on a non-number"),
                 "The unary operator can be used only on numbers")

parse_operator(st) ==
    LET start == st.index
        s1 == [st EXCEPT !.index = SkipWhile(st.source, start, operators)]
        operator == Slice(st.source, start, s1.index)
    IN  CASE operator = "=" -> Ok(s1, Attribution(TokenSpan(s1, start, s1.index)))
          [] operator = "-" -> Minus(s1, start)
          [] FoldKind(operator).node # "Unknown" /\ operator # "-" ->
               Fold(s1, start, FoldKind(operator))
          [] OTHER -> Err(s1, "The operator does not exists.")

next_token(st) ==
    LET c == current_character(st) IN
    CASE c = None -> Err(st, "Unexpected EOF.")
      [] c = Quote -> parse_literal_string(st)
      [] c = Backtick -> parse_multiline_string(st)
      [] c = "{" -> parse_bracket_scope(st)
      [] c \in operators -> parse_operator(st)
      [] is_digit(c) -> parse_number(st)
      [] is_alphabetic(c) -> parse_symbol(st)
      [] OTHER -> Err(st, "Unexpected character")

----------------------------------------------------------------------------
(* The evaluator (parser.rs). A StrawberryValue is a record tagged by kind; *)
(* variables is a function from the bound names to their values. A call of  *)
(* the evaluator returns [kind, variables, ...] with kind "Ok" (val),        *)
(* "Err" (the SemanticError msg), "Panic", or "StackOverflow" when the       *)
(* nesting of calls passes MaxDepth (the host stack is the only guard).      *)

MaxDepth == 4

NumberValue(num) == [kind |-> "Number", num |-> num]
StringValue(text) == [kind |-> "String", text |-> text]
BooleanValue(b) == [kind |-> "Boolean", bool |-> b]
NativeFunction(name) == [kind |-> "NativeFunction", name |-> name]
FunctionValue(name, params, body) ==
    [kind |-> "Function", name |-> name, params |-> params, body |-> body]
BlockValue(items) == [kind |-> "Block", items |-> items]
Empty == [kind |-> "Empty"]

VOk(variables, val) == [kind |-> "Ok", variables |-> variables, val |-> val]
VErr(variables, msg) == [kind |-> "Err", variables |-> variables, msg |-> msg]
VPanic(variables, msg) == [kind |-> "Panic", variables |-> variables, msg |-> msg]
VOverflow(variables) ==
    [kind |-> "StackOverflow", variables |-> variables, msg |-> "stack overflow"]

Insert(variables, name, val) ==
    [n \in DOMAIN variables \cup {name} |-> IF n = name THEN val ELSE variables[n]]

RatAdd(a, b) == Rat(a.n * b.d + b.n * a.d, a.d * b.d)
RatSub(a, b) == Rat(a.n * b.d - b.n * a.d, a.d * b.d)
RatMul(a, b) == Rat(a.n * b.n, a.d * b.d)
RatDiv(a, b) == Rat(a.n * b.d, a.d * b.n)
RatLess(a, b) == a.n * b.d < b.n * a.d

(* evaluate_numeric_expression with a number for a division by zero *)
evaluate_numeric_expression_total(variables, operator, lhs, rhs) ==
    CASE operator = "Add" -> VOk(variables, NumberValue(RatAdd(lhs, rhs)))
      [] operator = "Subtract" -> VOk(variables, NumberValue(RatSub(lhs, rhs)))
      [] operator = "Multiply" -> VOk(variables, NumberValue(RatMul(lhs, rhs)))
      [] operator = "Divide" ->
           IF rhs.n = 0 THEN VOk(variables, NumberValue(Rat(0, 1)))
           ELSE VOk(variables, NumberValue(RatDiv(lhs, rhs)))

evaluate_numeric_expression(variables, operator, lhs, rhs) ==
    CASE operator = "Add" -> VOk(variables, NumberValue(RatAdd(lhs, rhs)))
      [] operator = "Subtract" -> VOk(variables, NumberValue(RatSub(lhs, rhs)))
      [] operator = "Multiply" -> VOk(variables, NumberValue(RatMul(lhs, rhs)))
      [] operator = "Divide" ->
           IF rhs.n = 0 THEN VErr(variables, "Division by zero")
           ELSE VOk(variables, NumberValue(RatDiv(lhs, rhs)))

evaluate_string_expression(variables, operator, lhs, rhs) ==
    IF operator = "Add" THEN VOk(variables, StringValue(lhs \o rhs))
    ELSE VErr(variables, "Invalid string operation; only concatenation is supported")

(* evaluate_expression that gives the left operand for any other pair *)
evaluate_expression_lenient(variables, operator, left, right) ==
    CASE left.kind = "Number" /\ right.kind = "Number" ->
           evaluate_numeric_expression(variables, operator, left.num, right.num)
      [] left.kind = "String" /\ right.kind = "String" ->
           evaluate_string_expression(variables, operator, left.text, right.text)
      [] OTHER -> VOk(variables, left)

evaluate_expression(variables, operator, left, right) ==
    CASE left.kind = "Number" /\ right.kind = "Number" ->
           evaluate_numeric_expression(variables, operator, left.num, right.num)
      [] left.kind = "String" /\ right.kind = "String" ->
           evaluate_string_expression(variables, operator, left.text, right.text)
      [] OTHER -> VErr(variables, "Cannot evaluate expression with mixed types")

(* evaluate_comparison that also orders two Strings *)
evaluate_comparison_ordering(variables, operator, left, right) ==
    CASE left.kind = "Number" /\ right.kind = "Number" ->
           VOk(variables, BooleanValue(
               CASE operator = "Equal" -> left.num = right.num
                 [] operator = "NotEqual" -> left.num # right.num
                 [] operator = "GreaterThan" -> RatLess(right.num, left.num)
                 [] operator = "LessThan" -> RatLess(left.num, right.num)
                 [] operator = "GreaterEqual" -> ~RatLess(left.num, right.num)
                 [] operator = "LessEqual" -> ~RatLess(right.num, left.num)))
      [] left.kind = "String" /\ right.kind = "String" ->
           VOk(variables, BooleanValue((left.text = right.text) = (operator # "NotEqual")))
      [] left.kind = "Boolean" /\ right.kind = "Boolean"
            /\ operator \in {"Equal", "NotEqual"} ->
           VOk(variables, BooleanValue((left.bool = right.bool) = (operator = "Equal")))
      [] OTHER -> VErr(variables, "Invalid comparison or unsupported types")

evaluate_comparison(variables, operator, left, right) ==
    CASE left.kind = "Number" /\ right.kind = "Number" ->
           VOk(variables, BooleanValue(
               CASE operator = "Equal" -> left.num = right.num
                 [] operator = "NotEqual" -> left.num # right.num
                 [] operator = "GreaterThan" -> RatLess(right.num, left.num)
                 [] operator = "LessThan" -> RatLess(left.num, right.num)
                 [] operator = "GreaterEqual" -> ~RatLess(left.num, right.num)
                 [] operator = "LessEqual" -> ~RatLess(right.num, left.num)))
      [] left.kind = "String" /\ right.kind = "String"
            /\ operator \in {"Equal", "NotEqual"} ->
           VOk(variables, BooleanValue((left.text = right.text) = (operator = "Equal")))
      [] left.kind = "Boolean" /\ right.kind = "Boolean"
            /\ operator \in {"Equal", "NotEqual"} ->
           VOk(variables, BooleanValue((left.bool = right.bool) = (operator = "Equal")))
      [] OTHER -> VErr(variables, "Invalid comparison or unsupported types")

visit_identifier(variables, name) ==
    IF name \in DOMAIN variables THEN VOk(variables, variables[name])
    ELSE VErr(variables, "Undefined variable")

visit_function(variables, token) ==
    VOk(IF token.body.kind = "BracketScope"
        THEN Insert(variables, token.name,
                    FunctionValue(token.name, token.params, token.body.items))
        ELSE variables,
        Empty)

RECURSIVE parse_token(_, _, _)
RECURSIVE run_token_stream(_, _, _)

(* left_value = parse_token(left)?; right_value = parse_token(right)? *)
Operand2(variables, token, depth) ==
    LET l == parse_token(variables, token.left, depth) IN
    IF l.kind # "Ok" THEN l
    ELSE LET r == parse_token(l.variables, token.right, depth) IN
         IF r.kind # "Ok" THEN r
         ELSE [kind |-> "Ok", variables |-> r.variables, left |-> l.val, right |-> r.val]

visit_expression(variables, token, depth) ==
    CASE token.kind = "Number" -> VOk(variables, NumberValue(token.num))
      [] token.kind = "LiteralString" -> VOk(variables, StringValue(token.text))
      [] token.kind = "Expression" ->
           LET o == Operand2(variables, token, depth) IN
           IF o.kind # "Ok" THEN o
           ELSE evaluate_expression(o.variables, token.op, o.left, o.right)
      [] OTHER -> VErr(variables, "Invalid expression token")

(* visit_let that keeps a binding the name already has *)
visit_let_once(variables, token, depth) ==
    IF token.value = <<>>
    THEN VOk(Insert(variables, token.name, Empty), Empty)
    ELSE LET v == parse_token(variables, token.value[1], depth) IN
         IF v.kind # "Ok" THEN v
         ELSE IF token.name \in DOMAIN v.variables THEN VOk(v.variables, v.val)
         ELSE VOk(Insert(v.variables, token.name, v.val), v.val)

visit_let(variables, token, depth) ==
    IF token.value = <<>>
    THEN VOk(Insert(variables, token.name, Empty), Empty)
    ELSE LET v == parse_token(variables, token.value[1], depth) IN
         IF v.kind # "Ok" THEN v
         ELSE VOk(Insert(v.variables, token.name, v.val), v.val)

(* args.iter().map(|arg| self.parse_token(arg)).collect::<Result<Vec<_>, _>>() *)
RECURSIVE EvalArgs(_, _, _)
EvalArgs(variables, args, depth) ==
    IF Len(args) = 0 THEN VOk(variables, <<>>)
    ELSE LET first == parse_token(variables, Head(args), depth) IN
         IF first.kind # "Ok" THEN first
         ELSE LET rest == EvalArgs(first.variables, Tail(args), depth) IN
              IF rest.kind # "Ok" THEN rest
              ELSE VOk(rest.variables, <<first.val>> \o rest.val)

(* standard.rs *)
strawberry(variables, args) == VOk(variables, Empty)

execute_code_block(variables, args, depth) ==
    IF Len(args) = 0 THEN VPanic(variables, "called Option::unwrap() on a None value")
    ELSE IF args[1].kind = "Block"
    THEN LET r == run_token_stream(variables, args[1].items, depth + 1) IN
         IF r.kind = "Ok" THEN VOk(variables, r.val)
         ELSE [r EXCEPT !.variables = variables]
    ELSE VOk(variables, Empty)

if_comparison(variables, args, depth) ==
    IF Len(args) = 0 THEN VPanic(variables, "removal index (is 0) should be < len (is 0)")
    ELSE LET condition == Head(args)
             rest == Tail(args)
         IN  IF condition.kind # "Boolean"
             THEN VErr(variables, "First argument of 'if' must be a boolean")
             ELSE IF condition.bool /\ Len(rest) >= 1
             THEN execute_code_block(variables, <<rest[1]>>, depth)
             ELSE IF ~condition.bool /\ Len(rest) >= 2
             THEN execute_code_block(variables, <<rest[2]>>, depth)
             ELSE VOk(variables, Empty)

CallNative(variables, name, args, depth) ==
    CASE name = "Strawberry" -> strawberry(variables, args)
      [] name = "IfStatement" -> if_comparison(variables, args, depth)

(* BindParams that leaves a name the caller has bound as it is *)
RECURSIVE BindParamsUnder(_, _, _)
BindParamsUnder(scope, params, args) ==
    IF Len(params) = 0 \/ Len(args) = 0 THEN scope
    ELSE BindParamsUnder(IF Head(params) \in DOMAIN scope THEN scope
                         ELSE Insert(scope, Head(params), Head(args)),
                         Tail(params), Tail(args))

RECURSIVE BindParams(_, _, _)
BindParams(scope, params, args) ==
    IF Len(params) = 0 \/ Len(args) = 0 THEN scope
    ELSE BindParams(Insert(scope, Head(params), Head(args)), Tail(params), Tail(args))

(* visit_call that checks the callee and the count before the arguments *)
visit_call_checked_first(variables, token, depth) ==
    LET function == visit_identifier(variables, token.name) IN
    IF function.kind # "Ok" THEN function
    ELSE
    LET f == function.val IN
    IF f.kind \notin {"NativeFunction", "Function"}
    THEN VErr(variables, "is not callable")
    ELSE IF f.kind = "Function" /\ Len(f.params) # Len(token.args)
    THEN VErr(variables, "Function expected a different number of arguments")
    ELSE
    LET args_values == EvalArgs(variables, token.args, depth) IN
    IF args_values.kind # "Ok" THEN args_values
    ELSE
    LET vs == args_values.variables
    IN  CASE f.kind = "NativeFunction" -> CallNative(vs, f.name, args_values.val, depth)
          [] OTHER ->
               LET r == run_token_stream(
                            BindParams(vs, f.params, args_values.val),
                            f.body, depth + 1)
               IN  IF r.kind = "Ok" THEN VOk(vs, r.val)
                   ELSE [r EXCEPT !.variables = vs]

(* visit_call that runs the body on as many arguments as there are *)
visit_call_any(variables, token, depth) ==
    LET function == visit_identifier(variables, token.name) IN
    IF function.kind # "Ok" THEN function
    ELSE
    LET args_values == EvalArgs(variables, token.args, depth) IN
    IF args_values.kind # "Ok" THEN args_values
    ELSE
    LET f == function.val
        vs == args_values.variables
    IN  CASE f.kind = "NativeFunction" -> CallNative(vs, f.name, args_values.val, depth)
          [] f.kind = "Function" ->
               LET r == run_token_stream(
                            BindParams(vs, f.params, args_values.val),
                            f.body, depth + 1)
               IN  IF r.kind = "Ok" THEN VOk(vs, r.val)
                   ELSE [r EXCEPT !.variables = vs]
          [] OTHER -> VErr(vs, "is not callable")

(* visit_call with the body run in the caller's own variables *)
visit_call_shared(variables, token, depth) ==
    LET function == visit_identifier(variables, token.name) IN
    IF function.kind # "Ok" THEN function
    ELSE
    LET args_values == EvalArgs(variables, token.args, depth) IN
    IF args_values.kind # "Ok" THEN args_values
    ELSE
    LET f == function.val
        vs == args_values.variables
    IN  CASE f.kind = "NativeFunction" -> CallNative(vs, f.name, args_values.val, depth)
          [] f.kind = "Function" ->
               IF Len(f.params) # Len(args_values.val)
               THEN VErr(vs, "Function expected a different number of arguments")
               ELSE run_token_stream(BindParams(vs, f.params, args_values.val),
                                     f.body, depth + 1)
          [] OTHER -> VErr(vs, "is not callable")

visit_call(variables, token, depth) ==
    LET function == visit_identifier(variables, token.name) IN
    IF function.kind # "Ok" THEN function
    ELSE
    LET args_values == EvalArgs(variables, token.args, depth) IN
    IF args_values.kind # "Ok" THEN args_values
    ELSE
    LET f == function.val
        vs == args_values.variables
    IN  CASE f.kind = "NativeFunction" -> CallNative(vs, f.name, args_values.val, depth)
          [] f.kind = "Function" ->
               IF Len(f.params) # Len(args_values.val)
               THEN VErr(vs, "Function expected a different number of arguments")
               ELSE LET r == run_token_stream(
                                 BindParams(vs, f.params, args_values.val),
                                 f.body, depth + 1)
                    IN  IF r.kind = "Ok" THEN VOk(vs, r.val)
                        ELSE [r EXCEPT !.variables = vs]
          [] OTHER -> VErr(vs, "is not callable")

parse_token(variables, token, depth) ==
    CASE token.kind = "Boolean" -> VOk(variables, BooleanValue(token.bool))
      [] token.kind = "BracketScope" -> VOk(variables, BlockValue(token.items))
      [] token.kind \in {"LiteralString", "Number", "Expression"} ->
           visit_expression(variables, token, depth)
      [] token.kind = "Let" -> visit_let(variables, token, depth)
      [] token.kind = "Identifier" -> visit_identifier(variables, token.name)
      [] token.kind = "Function" -> visit_function(variables, token)
      [] token.kind = "Call" -> visit_call(variables, token, depth)
      [] token.kind = "Comparison" ->
           LET o == Operand2(variables, token, depth) IN
           IF o.kind # "Ok" THEN o
           ELSE evaluate_comparison(o.variables, token.op, o.left, o.right)
      [] OTHER -> VErr(variables, "Unknown token type")

RECURSIVE RunFrom(_, _, _, _)
RunFrom(variables, toks, last_result, depth) ==
    IF Len(toks) = 0 THEN VOk(variables, last_result)
    ELSE LET r == parse_token(variables, Head(toks), depth) IN
         IF r.kind # "Ok" THEN r
         ELSE RunFrom(r.variables, Tail(toks), r.val, depth)

run_token_stream(variables, toks, depth) ==
    IF depth > MaxDepth THEN VOverflow(variables)
    ELSE RunFrom(variables, toks, Empty, depth)

(* libs/mod.rs: the lyric and the name are drawn at random. *)
Lyrics == {"Let me take you down", "Nothing is real"}
Beatles == {"Paul McCartney", "John Lennon"}

load_standard(variables, lyric, name) ==
    Insert(Insert(Insert(Insert(variables,
        "strawberry", NativeFunction("Strawberry")),
        "fields_forever", StringValue(lyric)),
        "beatle", StringValue(name)),
        "if", NativeFunction("IfStatement"))

EmptyMap == [n \in {} |-> Empty]

----------------------------------------------------------------------------
(* Inputs: the source texts the run starts from.                            *)

MaxOps == 2
MaxBody == 3

RECURSIVE Join(_, _)
Join(lexemes, sep) ==
    IF Len(lexemes) = 0 THEN ""
    ELSE IF Len(lexemes) = 1 THEN lexemes[1]
    ELSE lexemes[1] \o sep \o Join(Tail(lexemes), sep)

SeqsUpTo(S, n) == UNION {[1..k -> S] : k \in 0..n}

ChainOperands == {"1", "20", "x"}
ArithmeticOps == {"+", "-", "*", "/"}
FoldingOps == ArithmeticOps \cup {"==", "!=", ">", "<", ">=", "<="}

(* a op b op c ..., one space around each operator *)
RECURSIVE Chains(_)
Chains(n) ==
    IF n = 0 THEN ChainOperands
    ELSE {c \o " " \o op \o " " \o a :
            c \in Chains(n - 1), op \in ArithmeticOps, a \in ChainOperands}

ChainSources == UNION {Chains(n) : n \in 0..MaxOps}

(* a op b with no, one or two blanks on each side of the operator *)
Blanks == {"", " ", "  "}
SpacingSources ==
    {a \o s1 \o op \o s2 \o b :
        a \in {"1", "20"}, b \in {"2", "x"}, s1 \in Blanks, s2 \in Blanks, op \in FoldingOps}

(* a block, a call or a let initializer, after nothing or after one node *)
Before == {"", "a "}
Brackets == {<<"", "">>, <<"{ ", " }">>, <<"{", "}">>, <<"f(", ")">>,
             <<"let x = ", ";">>}
BodyLexemes == {"1", "x", "'s'", "+", "-", "=="}
ConstructSources ==
    {pre \o br[1] \o Join(body, " ") \o br[2] :
        pre \in Before, br \in Brackets, body \in SeqsUpTo(BodyLexemes, MaxBody)}

(* constructs inside constructs *)
NestedSources ==
    {pre \o br[1] \o Join(body, sep) \o br[2] :
        pre \in Before, br \in Brackets \ {<<"", "">>}, sep \in {" ", ", "},
        body \in SeqsUpTo({"{ 2 }", "g(3)", "g(3 + 4)", "true"}, 2)}

(* an operator with nothing, or nothing scannable, where its right operand goes *)
DanglingSources ==
    {a \o op \o rest :
        a \in {"", "1 "}, op \in FoldingOps, rest \in {"", " ", " $", "$", " ;"}}

LetSources ==
    {"let" \o s1 \o name \o s2 \o rest :
        s1 \in {"", " "}, name \in {"", "x", "5"}, s2 \in {"", " "},
        rest \in {"", ";", "=1;", "= 1;", "= 1", "5", "+", "= ;", "= 1 2;"}}

FunctionSources ==
    {"function" \o s1 \o sig \o s2 \o body :
        s1 \in {"", " "}, sig \in {"", "f", "f()", "f(a)", "f(a, b)", "5"},
        s2 \in {"", " ", "  "}, body \in {"", "{}", "{ a }", "{ 1"}}

Examples == {"1 + 2 * 3", "-923.123 / -90.31", "let x=1;", "let x;", "function f(){}",
             "{ 1 + }", "foo(1 + )", "let x +", "1 +", "1 -", "-", "- $", "- 'x'",
             "a { 1 + 2 }", "a f(1 == 2)", "1 { + 2 }", "1 f(+ 2)", "1 let x = + 2;",
             "{ - 'x'}", "f(1, 2 + 3)", "f(g(1), { 2 })", "- 1", "-1", "a = 1",
             "let x = 1; let x = 2; x", "1 == 1", "1 != 1", "let be = 10;\nlet be = 10 + be;\nbe"}

(* a string or a block that is opened and not closed, inside other constructs *)
Unterminated ==
    {"'ab", "'ab\n", "'a\nb'", Backtick \o "ab", Backtick \o "a\nb", "{", "{ 1", "{ 1 + 1",
     "{ 'a' x ", "{ f(1) ", "{ { 2 } "}
Terminated == {"'ab'", Backtick \o "a\nb" \o Backtick, "{ 1 + 1 }"}
UnterminatedSources ==
    {pre \o body \o post :
        pre \in {"", "1 ", "{ ", "f(", "f(1, ", "let x = ", "let x ", "1 + "},
        body \in Unterminated \cup Terminated,
        post \in {"", " ", "}", ")", ";"}}

(* programs: declarations, then a call of a function or of the if native,   *)
(* then a name read back in the caller                                      *)
Prelude == "let x = 1;\nfunction g(b) { let z = b; let x = 3; z }\n"
FunctionBodies ==
    {"a", "let y = a; y", "let x = 2; x", "let a = 3; a", "function h() { 1 }",
     "let y = 1; nope", "g(a)", "let y = g(a); y", "if(true, { let y = a; })"}
BlockBodies ==
    {"1", "let y = 1; y", "let x = 2; x", "function h() { 1 }", "let y = 1; nope",
     "g(1)", "if(true, { let y = 1; })"}
Calls == {"f(5)", "f(let w = 4;)", "f(x)", "f()", "f(g(6))"}
Probes == {"x", "y", "z", "a", "w", "h"}
CallSources ==
    {Prelude \o "function f(a) { " \o body \o " }\n" \o call \o "\n" \o probe :
        body \in FunctionBodies, call \in Calls, probe \in Probes}
    \cup
    {Prelude \o "if(" \o cond \o ", { " \o body1 \o " }, { " \o body2 \o " })\n" \o probe :
        cond \in {"true", "false"}, body1 \in BlockBodies,
        body2 \in {"1", "let y = 2; y"}, probe \in Probes}

(* up to MaxLets let statements, one a line, then a name *)
MaxLets == 3
LetStatements ==
    {"let x = 1;", "let x = 2;", "let x = x + 1;", "let y = x;", "let y = 10 + y;",
     "let x = y * x;"}
RebindSources ==
    {Join(lets \o <<probe>>, "\n") :
        lets \in SeqsUpTo(LetStatements, MaxLets), probe \in {"x", "y"}}

(* a function of zero to two parameters called with zero to three arguments *)
AritySources ==
    {"function f(" \o params \o ") { " \o body \o " }\n" \o call :
        params \in {"", "a", "a, b"}, body \in {"7", "nope", "f(1)"},
        call \in {"f()", "f(1)", "f(1, 2)", "f(1, 2, 3)", "f(nope)", "f(1, nope)",
                  "function g(c) { f(c, c) }\ng(1)", "if(true, { f(1) })"}}

(* one division, of literals or of names bound to numbers *)
DivideSources ==
    {l \o " / " \o r :
        l \in {"6", "0", "-3", "1.5"},
        r \in {"0", "0.0", "00", "-0", "-0.0", "2", "-4", "0.5"}}
    \cup
    {"let z = 1 - 1;\nlet n = 3;\n" \o l \o " / " \o r :
        l \in {"6", "n", "z"}, r \in {"z", "n", "0", "2"}}

(* one binary operator or comparison between operands of every kind of value *)
TypingPrelude == "function f() { 1 }\nlet e = strawberry();\n"
TypedOperands == {"1", "2.5", "'s'", "'t'", "true", "false", "f", "strawberry", "{ 1 }", "e"}
ComparisonOps == {"==", "!=", ">", "<", ">=", "<="}
TypingSources ==
    {TypingPrelude \o a \o " " \o op \o " " \o b :
        a \in TypedOperands, b \in TypedOperands, op \in ArithmeticOps \cup ComparisonOps}

(* up to MaxLets statements, one a line, some of which fail *)
SequenceSources ==
    {Join(stmts, "\n") :
        stmts \in SeqsUpTo({"1", "nope", "let x = 2;", "x", "'s'", "function h() { 1 }"},
                           MaxLets)}

(* a function that reads one name, called from the top level and from     *)
(* inside another function, with the name bound before or after the       *)
(* declaration, by the caller or as a parameter                            *)
ReadingFunctions ==
    {"function f(" \o params \o ") { " \o name \o " }" :
        params \in {"", "a"}, name \in {"y", "a", "b", "f", "x"}}
SelfCall == "function f(n) { if(n, { 7 }, { f(true) }) }\nf(false)"
ScopeSources ==
    {"let a = 1;\n" \o f \o "\nlet y = 5;\n" \o call \o "\na" :
        f \in ReadingFunctions, call \in {"f()", "f(2)", "f(y)"}}
    \cup
    {f \o "\nfunction g(a) { let b = 2; " \o call \o " }\nlet y = 5;\ng(1)" :
        f \in ReadingFunctions, call \in {"f()", "f(3)", "f(b)"}}
    \cup {SelfCall}

(* one call of an unbound name, a number, a string, a function of one     *)
(* parameter or a native function, on up to MaxArgs arguments that bind,   *)
(* read, fail or rebind the callee                                         *)
MaxArgs == 2
OrderPrelude == "let n = 1;\nfunction f(a) { a }\n"
Callees == {"nope", "n", "beatle", "f", "strawberry"}
ArgLexemes == {"1", "let w = 4;", "w", "nope", "let n = f;", "let f = 1;"}
OrderSources ==
    {OrderPrelude \o callee \o "(" \o Join(args, ", ") \o ")" :
        callee \in Callees, args \in SeqsUpTo(ArgLexemes, MaxArgs)}

Sources == ChainSources \cup SpacingSources \cup ConstructSources \cup NestedSources
              \cup DanglingSources \cup LetSources \cup FunctionSources
              \cup UnterminatedSources \cup CallSources \cup RebindSources
              \cup AritySources \cup DivideSources \cup TypingSources
              \cup SequenceSources \cup ScopeSources \cup OrderSources \cup Examples

----------------------------------------------------------------------------
(* load_file: run_stream, one loop iteration per step, then the evaluator.  *)

St == Lexer(source, index, tokens, events)

NoResult == [kind |-> "None"]

Init ==
    /\ source \in Sources
    /\ index = -1
    /\ tokens = <<>>
    /\ events = {}
    /\ pc = "run_stream"
    /\ outcome = NoResult
    /\ value = NoResult
    /\ parser_variables = EmptyMap
    /\ parser_tokens = <<>>
    /\ parser_last = Empty

RunStreamBegin ==
    /\ pc = "run_stream"
    /\ index' = next_character(St).index
    /\ pc' = "scan"
    /\ UNCHANGED <<source, tokens, events, outcome, value, parser_variables, parser_tokens, parser_last>>

RunStreamSkip ==
    /\ pc = "scan"
    /\ is_whitespace(current_character(St))
    /\ index' = next_character(St).index
    /\ UNCHANGED <<source, tokens, events, pc, outcome, value, parser_variables, parser_tokens, parser_last>>

RunStreamToken ==
    /\ pc = "scan"
    /\ current_character(St) # None
    /\ ~is_whitespace(current_character(St))
    /\ LET r == next_token(St) IN
       /\ index' = r.st.index
       /\ events' = r.st.events
       /\ tokens' = IF r.kind = "Ok" THEN Append(r.st.tokens, r.tok) ELSE r.st.tokens
       /\ pc' = CASE r.kind = "Ok" -> "scan"
                  [] r.kind = "Err" -> "returned"
                  [] r.kind = "Panic" -> "panicked"
                  [] r.kind = "Hang" -> "diverged"
       /\ outcome' = IF r.kind = "Ok" THEN outcome ELSE [kind |-> r.kind, msg |-> r.msg]
    /\ UNCHANGED <<source, value, parser_variables, parser_tokens, parser_last>>

RunStreamEnd ==
    /\ pc = "scan"
    /\ current_character(St) = None
    /\ pc' = "returned"
    /\ outcome' = [kind |-> "Ok", tokens |-> tokens]
    /\ UNCHANGED <<source, index, tokens, events, value, parser_variables, parser_tokens, parser_last>>

(* load_file: StrawberryParser::new(token_stream, HashMap::new()) and       *)
(* load_standard.                                                           *)
ParserNew ==
    /\ pc = "returned"
    /\ outcome.kind = "Ok"
    /\ \E lyric \in Lyrics, name \in Beatles :
          parser_variables' = load_standard(EmptyMap, lyric, name)
    /\ parser_tokens' = outcome.tokens
    /\ parser_last' = Empty
    /\ pc' = "run_token_stream"
    /\ UNCHANGED <<source, index, tokens, events, outcome, value>>

(* the loop iteration that goes on to the next token after a failure *)
RunTokenStreamStepOn ==
    /\ pc = "run_token_stream"
    /\ parser_tokens # <<>>
    /\ LET r == parse_token(parser_variables, Head(parser_tokens), 0) IN
       /\ parser_variables' = r.variables
       /\ parser_tokens' = Tail(parser_tokens)
       /\ parser_last' = IF r.kind = "Ok" THEN r.val ELSE parser_last
    /\ UNCHANGED <<source, index, tokens, events, outcome, pc, value>>

(* run_token_stream: one iteration of the loop, last_result = parse_token(token)? *)
RunTokenStreamStep ==
    /\ pc = "run_token_stream"
    /\ parser_tokens # <<>>
    /\ LET r == parse_token(parser_variables, Head(parser_tokens), 0) IN
       /\ parser_variables' = r.variables
       /\ IF r.kind = "Ok"
          THEN /\ parser_tokens' = Tail(parser_tokens)
               /\ parser_last' = r.val
               /\ UNCHANGED <<pc, value>>
          ELSE /\ pc' = "evaluated"
               /\ value' = [kind |-> r.kind, msg |-> r.msg]
               /\ UNCHANGED <<parser_tokens, parser_last>>
    /\ UNCHANGED <<source, index, tokens, events, outcome>>

(* run_token_stream: Ok(last_result) *)
RunTokenStreamEnd ==
    /\ pc = "run_token_stream"
    /\ parser_tokens = <<>>
    /\ pc' = "evaluated"
    /\ value' = [kind |-> "Ok", val |-> parser_last]
    /\ UNCHANGED <<source, index, tokens, events, outcome, parser_variables, parser_tokens, parser_last>>

(* high_skip_whitespace on a character that is not whitespace: the loop     *)
(* body does nothing and the loop goes round again.                         *)
HighSkipWhitespaceSpin ==
    /\ pc = "diverged"
    /\ UNCHANGED vars

Next ==
    \/ RunStreamBegin
    \/ RunStreamSkip
    \/ RunStreamToken
    \/ RunStreamEnd
    \/ ParserNew
    \/ RunTokenStreamStep
    \/ RunTokenStreamEnd
    \/ HighSkipWhitespaceSpin

Spec == Init /\ [][Next]_vars

-----------------------------------------------------------------------------
(* Reading a node tree *)

Leaf == {"Number", "LiteralString", "Identifier", "Boolean", "Attribution"}
Container == {"BracketScope", "Call", "Let"}
Folded == {"Expression", "Comparison"}
Finished == {"returned", "run_token_stream", "evaluated"}

Children(tok) ==
    CASE tok.kind = "BracketScope" -> tok.items
      [] tok.kind = "Call" -> tok.args
      [] tok.kind = "Let" -> tok.value
      [] tok.kind = "Function" -> <<tok.body>>
      [] tok.kind \in Folded -> <<tok.left, tok.right>>
      [] OTHER -> <<>>

RECURSIVE Flat(_)
Flat(seqs) == IF seqs = <<>> THEN <<>> ELSE Head(seqs) \o Flat(Tail(seqs))

RECURSIVE AllNodes(_)
AllNodes(tok) ==
    LET kids == Children(tok)
    IN  <<tok>> \o Flat([i \in 1..Len(kids) |-> AllNodes(kids[i])])

ForestNodes(toks) == Flat([i \in 1..Len(toks) |-> AllNodes(toks[i])])

(* the spans of the nodes of the given kinds in a sequence of nodes *)
SpansOf(nodes, kinds) ==
    {nodes[i].span : i \in {j \in 1..Len(nodes) : nodes[j].kind \in kinds}}

LeafSpans(toks) == SpansOf(ForestNodes(toks), Leaf)

SpanInside(inner, outer) == outer.start < inner.start /\ inner.end < outer.end

(* where a node begins and ends in the source, read off its operands *)
RECURSIVE FirstStart(_)
FirstStart(tok) == IF tok.kind \in Folded THEN FirstStart(tok.left) ELSE tok.span.start
RECURSIVE LastEnd(_)
LastEnd(tok) == IF tok.kind \in Folded THEN LastEnd(tok.right) ELSE tok.span.end

InSourceOrder(toks) ==
    \A i \in 1..(Len(toks) - 1) : LastEnd(toks[i]) <= FirstStart(toks[i + 1])

(* the nodes of the result, when the scan returned one *)
Result == IF pc \in Finished /\ outcome.kind = "Ok" THEN outcome.tokens ELSE <<>>

-----------------------------------------------------------------------------
(* Reading the source as lexemes separated by single blanks *)

RECURSIVE SplitBlanks(_)
SplitBlanks(s) ==
    LET cut == SkipUntil(s, 0, {" "})
    IN  IF cut >= Len(s) THEN <<s>>
        ELSE <<Slice(s, 0, cut)>> \o SplitBlanks(Slice(s, cut + 1, Len(s)))

Chars(s) == {CharAt(s, i) : i \in 0..(Len(s) - 1)}

IsNumeral(l) ==
    /\ l # ""
    /\ Chars(l) \subseteq Digits \cup {"."}
    /\ CharAt(l, 0) \in Digits /\ CharAt(l, Len(l) - 1) \in Digits
    /\ Cardinality({i \in 0..(Len(l) - 1) : CharAt(l, i) = "."}) <= 1

IsName(l) ==
    /\ l # ""
    /\ CharAt(l, 0) \in Letters
    /\ Chars(l) \subseteq Letters \cup Digits \cup {"_"}
    /\ l \notin {"let", "function", "true", "false"}

IsOperand(l) == IsNumeral(l) \/ IsName(l)

(* operand, then any number of arithmetic operator and operand *)
IsChain(lex) ==
    /\ Len(lex) % 2 = 1
    /\ \A i \in 1..Len(lex) :
          IF i % 2 = 1 THEN IsOperand(lex[i]) ELSE lex[i] \in ArithmeticOps

OpName(l) ==
    CASE l = "+" -> "Add" [] l = "-" -> "Subtract"
      [] l = "*" -> "Multiply" [] l = "/" -> "Divide"

(* a node with the spans taken out *)
RECURSIVE Shape(_)
Shape(tok) ==
    CASE tok.kind = "Number" -> [kind |-> "Number", num |-> tok.num]
      [] tok.kind = "Identifier" -> [kind |-> "Identifier", name |-> tok.name]
      [] tok.kind = "Expression" ->
           [kind |-> "Expression", op |-> tok.op,
            left |-> Shape(tok.left), right |-> Shape(tok.right)]
      [] OTHER -> [kind |-> tok.kind]

OperandShape(l) ==
    IF IsNumeral(l) THEN [kind |-> "Number", num |-> ParseF64(l)]
    ELSE [kind |-> "Identifier", name |-> l]

(* the first k operands of a chain, each operator applied to everything on its left *)
RECURSIVE LeftShape(_, _)
LeftShape(lex, k) ==
    IF k = 1 THEN OperandShape(lex[1])
    ELSE [kind |-> "Expression", op |-> OpName(lex[2 * k - 2]),
          left |-> LeftShape(lex, k - 1), right |-> OperandShape(lex[2 * k - 1])]

(* the same in arithmetic; <<>> when a division by zero comes up *)
RECURSIVE LeftValue(_, _)
LeftValue(lex, k) ==
    IF k = 1 THEN <<ParseF64(lex[1])>>
    ELSE LET acc == LeftValue(lex, k - 1)
             rhs == ParseF64(lex[2 * k - 1])
             op == lex[2 * k - 2]
         IN  IF acc = <<>> THEN <<>>
             ELSE CASE op = "+" -> <<RatAdd(acc[1], rhs)>>
                    [] op = "-" -> <<RatSub(acc[1], rhs)>>
                    [] op = "*" -> <<RatMul(acc[1], rhs)>>
                    [] op = "/" -> IF rhs.n = 0 THEN <<>> ELSE <<RatDiv(acc[1], rhs)>>

Lexemes == SplitBlanks(source)
Operators(lex) == (Len(lex) - 1) \div 2

-----------------------------------------------------------------------------
(* C1: binary operators have no precedence and no right-recursive operand:  *)
(* a chain of operands and arithmetic operators scans to one node in which  *)
(* every operator takes the node built so far as its left operand, so it    *)
(* folds strictly left to right; where the operands are numbers the value   *)
(* is the left-to-right arithmetic, and 1 + 2 * 3 is (1 + 2) * 3 = 9.       *)
C1_LeftToRightFold ==
    IsChain(Lexemes) /\ Operators(Lexemes) >= 1 =>
        /\ pc \notin {"panicked", "diverged"}
        /\ pc \in Finished =>
              /\ outcome.kind = "Ok"
              /\ Len(outcome.tokens) = 1
              /\ Shape(outcome.tokens[1]) = LeftShape(Lexemes, Operators(Lexemes) + 1)
        /\ pc = "evaluated" /\ (\A i \in 1..Len(Lexemes) : i % 2 = 1 => IsNumeral(Lexemes[i])) =>
              LET expected == LeftValue(Lexemes, Operators(Lexemes) + 1)
              IN  IF expected = <<>> THEN value.kind = "Err"
                  ELSE value.kind = "Ok" /\ value.val = NumberValue(expected[1])
        /\ pc = "evaluated" /\ source = "1 + 2 * 3" =>
              value.kind = "Ok" /\ value.val = NumberValue(Rat(9, 1))

C1_Witness ==
    /\ pc = "evaluated"
    /\ source = "1 + 2 * 3"
    /\ Len(outcome.tokens) = 1
    /\ outcome.tokens[1].op = "Multiply"
    /\ outcome.tokens[1].left.kind = "Expression"
    /\ value.val = NumberValue(Rat(9, 1))

-----------------------------------------------------------------------------
(* A construct holds exactly what was scanned between its delimiters: its   *)
(* children lie inside its span, in source order, and every leaf of the     *)
(* result that lies inside its span is one of its descendants.              *)
HoldsItsInterior(span, kids) ==
    /\ \A x \in LeafSpans(kids) : SpanInside(x, span)
    /\ \A x \in LeafSpans(Result) : SpanInside(x, span) => x \in LeafSpans(kids)
    /\ InSourceOrder(kids)

NodesOfKind(kind) ==
    LET nodes == ForestNodes(Result)
    IN  {i \in 1..Len(nodes) : nodes[i].kind = kind}

(* C2: the children of a Block node are exactly the nodes scanned between   *)
(* its braces, in source order; a node emitted before the opening brace     *)
(* stays in the enclosing sequence, however often folding happened inside.  *)
C2_BlockChildren ==
    \A i \in NodesOfKind("BracketScope") :
        LET block == ForestNodes(Result)[i]
        IN  HoldsItsInterior(block.span, block.items)

(* C3: the arguments of a Call node are exactly the nodes scanned between   *)
(* its parentheses, in source order; a node emitted before the call stays   *)
(* in the enclosing sequence, and a binary node built inside the            *)
(* parentheses counts as an argument.                                       *)
C3_CallArguments ==
    \A i \in NodesOfKind("Call") :
        LET call == ForestNodes(Result)[i]
        IN  HoldsItsInterior(call.span, call.args)

(* the node right of the operator, and the nodes left of it *)
RECURSIVE RightAnchor(_)
RightAnchor(tok) == IF tok.kind \in Folded THEN RightAnchor(tok.right) ELSE tok.span
RECURSIVE Atoms(_)
Atoms(tok) ==
    IF tok.kind \in Folded THEN Atoms(tok.left) \cup Atoms(tok.right) ELSE {tok.span}

(* C4: the left operand of a binary operator is a node emitted in the same  *)
(* construct as the operator: a construct (block, argument list or let)     *)
(* encloses the operator and its right operand exactly when it encloses     *)
(* the left operand.                                                        *)
C4_LeftOperandIsSibling ==
    LET nodes == ForestNodes(Result)
    IN  \A e \in 1..Len(nodes), c \in 1..Len(nodes) :
            nodes[e].kind \in Folded /\ nodes[c].kind \in Container =>
                (SpanInside(RightAnchor(nodes[e].right), nodes[c].span)
                    <=> \A a \in Atoms(nodes[e].left) : SpanInside(a, nodes[c].span))

(* C5: the scan of every source text terminates: it never stays in a loop   *)
(* that consumes nothing, so let x=1; and let x; and function f(){} come    *)
(* to a result.                                                             *)
C5_ScanTerminates == pc # "diverged"

(* C6: a binary operator or a minus with no scannable right operand makes   *)
(* the scan return a SyntaxError, and never abort or return nodes.          *)
C6_MissingRightOperand ==
    /\ pc # "panicked"
    /\ pc \in Finished /\ "right operand missing" \in events => outcome.kind = "Err"

(* C7: the scan has no local recovery: once scanning a child of a block, an *)
(* argument of a call or the token after a let name has failed, the whole   *)
(* scan returns that SyntaxError and no node sequence.                      *)
C7_NoLocalRecovery ==
    pc \in Finished
      /\ events \cap {"block child failed", "call argument failed", "let token failed"} # {}
        => outcome.kind = "Err"

(* C8: a binary node spans its operands: its span starts where its left     *)
(* operand starts and ends where its right operand ends, its text is that   *)
(* slice of the source, whatever the blanks around the operator, and        *)
(* computing the span never aborts the scan.                                *)
C8_SpanCoversOperands ==
    /\ pc = "panicked" => outcome.msg # "attempt to subtract with overflow"
    /\ LET nodes == ForestNodes(tokens)
       IN  \A i \in 1..Len(nodes) :
               nodes[i].kind \in Folded =>
                   /\ nodes[i].span.start = nodes[i].left.span.start
                   /\ nodes[i].span.end = nodes[i].right.span.end
                   /\ nodes[i].span.text =
                          Slice(source, nodes[i].span.start, nodes[i].span.end)

(* C9: a let is an identifier and then a semicolon, with or without an      *)
(* initializer between them: no Let node is in a returned node sequence     *)
(* whose text does not end in the semicolon.                                *)
C9_LetIsTerminated ==
    \A i \in NodesOfKind("Let") :
        LET text == ForestNodes(Result)[i].span.text
        IN  CharAt(text, Len(text) - 1) = ";"

(* C10: a minus with no operand on its left and a Number on its right scans *)
(* to that Number negated, so -923.123 / -90.31 divides two negative        *)
(* numbers; with anything else on its right the scan returns a SyntaxError. *)
C10_UnaryMinus ==
    /\ pc \in Finished /\ Len(Lexemes) = 1 /\ CharAt(source, 0) = "-"
          /\ IsNumeral(Slice(source, 1, Len(source))) =>
              /\ outcome.kind = "Ok"
              /\ Len(outcome.tokens) = 1
              /\ Shape(outcome.tokens[1]) =
                     [kind |-> "Number", num |-> Negate(ParseF64(Slice(source, 1, Len(source))))]
    /\ pc \in Finished /\ source = "-923.123 / -90.31" =>
              /\ outcome.kind = "Ok"
              /\ Len(outcome.tokens) = 1
              /\ Shape(outcome.tokens[1]) =
                     [kind |-> "Expression", op |-> "Divide",
                      left |-> [kind |-> "Number", num |-> Rat(-923123, 1000)],
                      right |-> [kind |-> "Number", num |-> Rat(-9031, 100)]]
    /\ pc \in Finished /\ "unary minus on a non-number" \in events => outcome.kind = "Err"

(* C11: an unterminated construct always fails the scan with a SyntaxError: *)
(* a quote string that reaches a newline or the end of input, a backtick    *)
(* string that reaches the end of input, and a block that reaches the end   *)
(* of input before its closing brace, whatever the block contains.          *)
C11_UnterminatedFails ==
    events \cap {"string unterminated", "block unterminated"} # {} =>
        /\ pc # "scan"
        /\ pc \in Finished => outcome.kind = "Err"

-----------------------------------------------------------------------------
(* Every call made while a node is evaluated, the nested ones included      *)

(* the block the if native runs for these argument values, if any *)
IfBlock(args) ==
    IF Len(args) = 0 \/ args[1].kind # "Boolean" THEN <<>>
    ELSE LET at == IF args[1].bool THEN 2 ELSE 3 IN
         IF Len(args) >= at /\ args[at].kind = "Block" THEN <<args[at]>> ELSE <<>>

RECURSIVE IsolatedIn(_, _, _)
RECURSIVE IsolatedSeq(_, _, _)
RECURSIVE IsolatedArgs(_, _, _)

(* the claim at one call: the caller's variables after the call are its     *)
(* variables after the arguments; then the same inside the body or block    *)
IsolatedCall(variables, token, depth) ==
    LET function == visit_identifier(variables, token.name)
        args_values == EvalArgs(variables, token.args, depth)
        f == function.val
    IN  function.kind = "Ok" =>
          /\ IsolatedArgs(variables, token.args, depth)
          /\ args_values.kind = "Ok" /\ f.kind \in {"Function", "NativeFunction"} =>
               /\ visit_call(variables, token, depth).variables = args_values.variables
               /\ f.kind = "Function" /\ Len(f.params) = Len(args_values.val) =>
                     IsolatedSeq(BindParams(args_values.variables, f.params, args_values.val),
                                 f.body, depth + 1)
               /\ f.kind = "NativeFunction" /\ f.name = "IfStatement" =>
                     \A i \in 1..Len(IfBlock(args_values.val)) :
                         IsolatedSeq(args_values.variables,
                                     IfBlock(args_values.val)[i].items, depth + 1)

IsolatedIn(variables, token, depth) ==
    CASE token.kind \in Folded ->
           /\ IsolatedIn(variables, token.left, depth)
           /\ LET l == parse_token(variables, token.left, depth)
              IN  l.kind = "Ok" => IsolatedIn(l.variables, token.right, depth)
      [] token.kind = "Let" ->
           token.value # <<>> => IsolatedIn(variables, token.value[1], depth)
      [] token.kind = "Call" -> IsolatedCall(variables, token, depth)
      [] OTHER -> TRUE

IsolatedArgs(variables, args, depth) ==
    args # <<>> =>
        /\ IsolatedIn(variables, Head(args), depth)
        /\ LET first == parse_token(variables, Head(args), depth)
           IN  first.kind = "Ok" => IsolatedArgs(first.variables, Tail(args), depth)

IsolatedSeq(variables, toks, depth) ==
    toks # <<>> /\ depth <= MaxDepth =>
        /\ IsolatedIn(variables, Head(toks), depth)
        /\ LET r == parse_token(variables, Head(toks), depth)
           IN  r.kind = "Ok" => IsolatedSeq(r.variables, Tail(toks), depth)

(* a call node of the program, at the top level or inside a function body *)
HasCall(toks) ==
    LET nodes == ForestNodes(toks)
    IN  \E i \in 1..Len(nodes) : nodes[i].kind = "Call"

(* C12: environment-copy isolation: when a call of a user function, or the  *)
(* if native running a block, returns, with a value or with an error, the   *)
(* caller's variables are what they were once the call's arguments were     *)
(* evaluated; nothing bound inside the body or block is visible to the      *)
(* caller, at any nesting depth.                                            *)
C12_CallLeavesCallerEnvironment ==
    pc = "run_token_stream" /\ parser_tokens # <<>> =>
        IsolatedIn(parser_variables, Head(parser_tokens), 0)

C12_Witness ==
    /\ source = Prelude \o "function f(a) { let y = g(a); y }\nf(let w = 4;)\ny"
    /\ pc = "evaluated"
    /\ value = [kind |-> "Err", msg |-> "Undefined variable"]
    /\ DOMAIN parser_variables \cap {"x", "w", "y", "z", "a", "b"} = {"x", "w"}
    /\ parser_variables["x"] = NumberValue(Rat(1, 1))

-----------------------------------------------------------------------------
(* Reading a program of let lines, with the bindings it should make        *)

RECURSIVE SplitLines(_)
SplitLines(s) ==
    LET cut == SkipUntil(s, 0, {"\n"})
    IN  IF cut >= Len(s) THEN <<s>>
        ELSE <<Slice(s, 0, cut)>> \o SplitLines(Slice(s, cut + 1, Len(s)))

(* the lexemes of the initializer of  let name = initializer;  *)
Initializer(line) ==
    LET body == Slice(line, 0, Len(line) - 1)
        lex == SplitBlanks(body)
    IN  SubSeq(lex, 4, Len(lex))

IsLetLine(line) ==
    LET lex == SplitBlanks(line)
    IN  /\ Len(lex) >= 4
        /\ lex[1] = "let" /\ IsName(lex[2]) /\ lex[3] = "="
        /\ CharAt(line, Len(line) - 1) = ";"
        /\ IsChain(Initializer(line))

IsLetProgram(lines) ==
    /\ Len(lines) >= 1
    /\ \A i \in 1..(Len(lines) - 1) : IsLetLine(lines[i])
    /\ IsName(lines[Len(lines)])

(* an operand's number under the bindings made so far; <<>> if it has none *)
BoundOperand(bound, l) ==
    IF IsNumeral(l) THEN <<ParseF64(l)>>
    ELSE IF l \in DOMAIN bound THEN <<bound[l]>> ELSE <<>>

RECURSIVE BoundChain(_, _, _)
BoundChain(bound, lex, k) ==
    LET rhs == BoundOperand(bound, lex[2 * k - 1]) IN
    IF k = 1 THEN rhs
    ELSE LET acc == BoundChain(bound, lex, k - 1)
             op == lex[2 * k - 2]
         IN  IF acc = <<>> \/ rhs = <<>> THEN <<>>
             ELSE CASE op = "+" -> <<RatAdd(acc[1], rhs[1])>>
                    [] op = "-" -> <<RatSub(acc[1], rhs[1])>>
                    [] op = "*" -> <<RatMul(acc[1], rhs[1])>>
                    [] op = "/" -> IF rhs[1].n = 0 THEN <<>> ELSE <<RatDiv(acc[1], rhs[1])>>

(* the bindings after the first k lines: each let stores the value of its  *)
(* initializer under the bindings before it; <<>> once a let has failed    *)
RECURSIVE MostRecent(_, _)
MostRecent(lines, k) ==
    IF k = 0 THEN <<[n \in {} |-> Rat(0, 1)]>>
    ELSE LET before == MostRecent(lines, k - 1) IN
         IF before = <<>> THEN <<>>
         ELSE LET lex == Initializer(lines[k])
                  v == BoundChain(before[1], lex, Operators(lex) + 1)
                  name == SplitBlanks(lines[k])[2]
              IN  IF v = <<>> THEN <<>>
                  ELSE <<[n \in DOMAIN before[1] \cup {name} |->
                             IF n = name THEN v[1] ELSE before[1][n]]>>

Lines == SplitLines(source)

(* C13: rebinding overwrites: after a sequence of let statements a name     *)
(* has the value stored by the most recent let of that name, and the        *)
(* initializer of a rebinding is evaluated before the overwrite, so it      *)
(* reads the previous value; let x = 1; let x = 2; x yields 2 and           *)
(* let be = 10; let be = 10 + be; be yields Number 20.                      *)
C13_RebindingOverwrites ==
    /\ pc = "evaluated" /\ IsLetProgram(Lines) =>
          LET bound == MostRecent(Lines, Len(Lines) - 1)
              name == Lines[Len(Lines)]
          IN  IF bound = <<>> \/ name \notin DOMAIN bound[1]
              THEN value.kind = "Err"
              ELSE /\ value = [kind |-> "Ok", val |-> NumberValue(bound[1][name])]
                   /\ \A n \in DOMAIN bound[1] :
                          parser_variables[n] = NumberValue(bound[1][n])
    /\ pc = "evaluated" /\ source = "let x = 1; let x = 2; x" =>
          value = [kind |-> "Ok", val |-> NumberValue(Rat(2, 1))]
    /\ pc = "evaluated" /\ source = "let be = 10;\nlet be = 10 + be;\nbe" =>
          value = [kind |-> "Ok", val |-> NumberValue(Rat(20, 1))]
    /\ IsLetProgram(Lines) \/ source = "let x = 1; let x = 2; x" =>
          pc \notin {"panicked", "diverged"} /\ (pc = "returned" => outcome.kind = "Ok")

C13_Witness ==
    /\ source = "let x = 1;\nlet x = x + 1;\nlet x = x + 1;\nx"
    /\ pc = "evaluated"
    /\ value = [kind |-> "Ok", val |-> NumberValue(Rat(3, 1))]

-----------------------------------------------------------------------------
(* The calls applied while a node is evaluated, nested ones included, in    *)
(* the order they begin: the callee, the argument values, the caller's      *)
(* variables once the arguments are evaluated, and what the call returns.   *)

RECURSIVE CallsIn(_, _, _)
RECURSIVE CallsSeq(_, _, _)
RECURSIVE CallsArgs(_, _, _)

CallsOf(variables, token, depth) ==
    LET function == visit_identifier(variables, token.name)
        args_values == EvalArgs(variables, token.args, depth)
        f == function.val
        vs == args_values.variables
        inside ==
            IF f.kind = "Function" /\ Len(f.params) = Len(args_values.val)
            THEN CallsSeq(BindParams(vs, f.params, args_values.val), f.body, depth + 1)
            ELSE IF f.kind = "NativeFunction" /\ f.name = "IfStatement"
                     /\ IfBlock(args_values.val) # <<>>
            THEN CallsSeq(vs, IfBlock(args_values.val)[1].items, depth + 1)
            ELSE <<>>
    IN  IF function.kind # "Ok" THEN <<>>
        ELSE CallsArgs(variables, token.args, depth) \o
             (IF args_values.kind # "Ok" THEN <<>>
              ELSE <<[name |-> token.name, callee |-> f, args |-> args_values.val,
                      entry |-> vs, depth |-> depth,
                      result |-> visit_call(variables, token, depth)]>> \o inside)

CallsIn(variables, token, depth) ==
    CASE token.kind \in Folded ->
           LET l == parse_token(variables, token.left, depth)
           IN  CallsIn(variables, token.left, depth) \o
               (IF l.kind = "Ok" THEN CallsIn(l.variables, token.right, depth) ELSE <<>>)
      [] token.kind = "Let" ->
           IF token.value = <<>> THEN <<>> ELSE CallsIn(variables, token.value[1], depth)
      [] token.kind = "Call" -> CallsOf(variables, token, depth)
      [] OTHER -> <<>>

CallsArgs(variables, args, depth) ==
    IF args = <<>> THEN <<>>
    ELSE LET first == parse_token(variables, Head(args), depth)
         IN  CallsIn(variables, Head(args), depth) \o
             (IF first.kind = "Ok" THEN CallsArgs(first.variables, Tail(args), depth)
              ELSE <<>>)

CallsSeq(variables, toks, depth) ==
    IF toks = <<>> \/ depth > MaxDepth THEN <<>>
    ELSE LET r == parse_token(variables, Head(toks), depth)
         IN  CallsIn(variables, Head(toks), depth) \o
             (IF r.kind = "Ok" THEN CallsSeq(r.variables, Tail(toks), depth) ELSE <<>>)

(* the calls of the node run_token_stream is about to evaluate *)
CallsNow ==
    IF pc = "run_token_stream" /\ parser_tokens # <<>>
    THEN CallsIn(parser_variables, Head(parser_tokens), 0) ELSE <<>>

ArityError == "Function expected a different number of arguments"

(* C14: a call of a user function of n parameters with k arguments that    *)
(* all evaluate fails with a SemanticError whenever k differs from n,      *)
(* for k < n and for k > n, and the body is not evaluated.                 *)
C14_ArgumentCount ==
    \A i \in 1..Len(CallsNow) :
        LET call == CallsNow[i] IN
        call.callee.kind = "Function" /\ Len(call.args) # Len(call.callee.params) =>
            /\ call.result.kind = "Err"
            /\ call.result.msg = ArityError
            /\ i = Len(CallsNow)

C14_Witness ==
    /\ \E i \in 1..Len(CallsNow) :
          /\ CallsNow[i].callee.kind = "Function"
          /\ Len(CallsNow[i].args) > Len(CallsNow[i].callee.params)
          /\ CallsNow[i].depth > 0
          /\ CallsNow[i].result.msg = ArityError
    /\ source = "function f(a) { nope }\nfunction g(c) { f(c, c) }\ng(1)"

-----------------------------------------------------------------------------
(* The last node of the program, once run_token_stream has come to it      *)

AtLastNode ==
    /\ pc = "evaluated"
    /\ outcome.tokens # <<>>
    /\ Len(parser_tokens) <= 1

LastNode == outcome.tokens[Len(outcome.tokens)]

(* the value of an operand that is a literal or a bound name; <<>> otherwise *)
OperandValue(tok) ==
    CASE tok.kind = "Number" -> <<NumberValue(tok.num)>>
      [] tok.kind = "LiteralString" -> <<StringValue(tok.text)>>
      [] tok.kind = "Boolean" -> <<BooleanValue(tok.bool)>>
      [] tok.kind = "BracketScope" -> <<BlockValue(tok.items)>>
      [] tok.kind = "Identifier" ->
           IF tok.name \in DOMAIN parser_variables
           THEN <<parser_variables[tok.name]>> ELSE <<>>
      [] OTHER -> <<>>

(* the last node is  left operator right  with operands that have values *)
LastIs(kind) ==
    /\ AtLastNode
    /\ LastNode.kind = kind
    /\ OperandValue(LastNode.left) # <<>>
    /\ OperandValue(LastNode.right) # <<>>

LeftValueOf(tok) == OperandValue(tok.left)[1]
RightValueOf(tok) == OperandValue(tok.right)[1]

(* C15: a division whose operands are Numbers yields a SemanticError, and  *)
(* never a Number, when the right operand is zero, and the Number l / r    *)
(* for every other right operand.                                          *)
C15_DivisionByZero ==
    LastIs("Expression") /\ LastNode.op = "Divide"
      /\ LeftValueOf(LastNode).kind = "Number" /\ RightValueOf(LastNode).kind = "Number" =>
        LET l == LeftValueOf(LastNode).num
            r == RightValueOf(LastNode).num
        IN  IF r.n = 0
            THEN value = [kind |-> "Err", msg |-> "Division by zero"]
            ELSE value = [kind |-> "Ok", val |-> NumberValue(Rat(l.n * r.d, l.d * r.n))]

C15_Witness ==
    /\ LastIs("Expression") /\ LastNode.op = "Divide"
    /\ source = "let z = 1 - 1;\nlet n = 3;\nn / z"
    /\ RightValueOf(LastNode) = NumberValue(Rat(0, 1))
    /\ value.kind = "Err"

(* the Number an arithmetic operator gives; <<>> for a division by zero *)
Arithmetic(op, l, r) ==
    CASE op = "Add" -> <<Rat(l.n * r.d + r.n * l.d, l.d * r.d)>>
      [] op = "Subtract" -> <<Rat(l.n * r.d - r.n * l.d, l.d * r.d)>>
      [] op = "Multiply" -> <<Rat(l.n * r.n, l.d * r.d)>>
      [] op = "Divide" -> IF r.n = 0 THEN <<>> ELSE <<Rat(l.n * r.d, l.d * r.n)>>

(* C16: a binary expression of two Numbers is the Number the operator      *)
(* gives; of two Strings, + is the left text followed by the right text    *)
(* and -, *, / are a SemanticError; every other pair of operand kinds      *)
(* (Number with String, or any Boolean, Function, NativeFunction, Block    *)
(* or Empty operand) is a SemanticError.                                   *)
C16_BinaryExprTyping ==
    LastIs("Expression") =>
        LET l == LeftValueOf(LastNode)
            r == RightValueOf(LastNode)
            op == LastNode.op
        IN  CASE l.kind = "Number" /\ r.kind = "Number" ->
                   IF Arithmetic(op, l.num, r.num) = <<>> THEN value.kind = "Err"
                   ELSE value = [kind |-> "Ok",
                                 val |-> NumberValue(Arithmetic(op, l.num, r.num)[1])]
              [] l.kind = "String" /\ r.kind = "String" ->
                   IF op = "Add"
                   THEN value = [kind |-> "Ok", val |-> StringValue(l.text \o r.text)]
                   ELSE value.kind = "Err"
              [] OTHER -> value.kind = "Err"

C16_Witness ==
    /\ LastIs("Expression")
    /\ source = TypingPrelude \o "'s' + 't'"
    /\ value = [kind |-> "Ok", val |-> StringValue("st")]

CmpName(l) ==
    CASE l = "==" -> "Equal" [] l = "!=" -> "NotEqual"
      [] l = ">" -> "GreaterThan" [] l = "<" -> "LessThan"
      [] l = ">=" -> "GreaterEqual" [] l = "<=" -> "LessEqual"

(* the Boolean a comparison of two Numbers gives *)
Ordering(op, l, r) ==
    CASE op = "Equal" -> l.n * r.d = r.n * l.d
      [] op = "NotEqual" -> l.n * r.d # r.n * l.d
      [] op = "GreaterThan" -> l.n * r.d > r.n * l.d
      [] op = "LessThan" -> l.n * r.d < r.n * l.d
      [] op = "GreaterEqual" -> l.n * r.d >= r.n * l.d
      [] op = "LessEqual" -> l.n * r.d <= r.n * l.d

LastLine == SplitBlanks(Lines[Len(Lines)])

(* a literal or a name *)
IsAtom(l) ==
    \/ IsNumeral(l) \/ IsName(l) \/ l \in {"true", "false"}
    \/ /\ Len(l) >= 2
       /\ CharAt(l, 0) = Quote /\ CharAt(l, Len(l) - 1) = Quote
       /\ Chars(Slice(l, 1, Len(l) - 1)) \cap {Quote, "\n"} = {}

(* C17: == and != give the Boolean equality or inequality of two Numbers,  *)
(* two Strings or two Booleans; >, <, >=, <= give a Boolean for two        *)
(* Numbers only; every other operator and operand kinds give a             *)
(* SemanticError; 1 == 1 is Boolean true and 1 != 1 is Boolean false.      *)
C17_ComparisonTyping ==
    /\ AtLastNode /\ Len(LastLine) = 3 /\ LastLine[2] \in ComparisonOps
          /\ IsAtom(LastLine[1]) /\ IsAtom(LastLine[3]) =>
          LastNode.kind = "Comparison" /\ LastNode.op = CmpName(LastLine[2])
    /\ LastIs("Comparison") =>
          LET l == LeftValueOf(LastNode)
              r == RightValueOf(LastNode)
              op == LastNode.op
          IN  CASE l.kind = "Number" /\ r.kind = "Number" ->
                     value = [kind |-> "Ok", val |-> BooleanValue(Ordering(op, l.num, r.num))]
                [] l.kind = r.kind /\ l.kind \in {"String", "Boolean"}
                      /\ op \in {"Equal", "NotEqual"} ->
                     value = [kind |-> "Ok", val |-> BooleanValue((l = r) = (op = "Equal"))]
                [] OTHER -> value.kind = "Err"
    /\ pc = "evaluated" /\ source = "1 == 1" =>
          value = [kind |-> "Ok", val |-> BooleanValue(TRUE)]
    /\ pc = "evaluated" /\ source = "1 != 1" =>
          value = [kind |-> "Ok", val |-> BooleanValue(FALSE)]
    /\ source \in {"1 == 1", "1 != 1"} =>
          pc \notin {"panicked", "diverged"} /\ (pc = "returned" => outcome.kind = "Ok")

C17_Witness ==
    /\ LastIs("Comparison")
    /\ source = TypingPrelude \o "'s' != 't'"
    /\ value = [kind |-> "Ok", val |-> BooleanValue(TRUE)]

-----------------------------------------------------------------------------
(* the names load_standard binds *)
StandardNames == {"strawberry", "fields_forever", "beatle", "if"}

(* the names the let and function nodes among these nodes could bind *)
NamesIn(toks) ==
    LET nodes == ForestNodes(toks)
    IN  {nodes[i].name : i \in {j \in 1..Len(nodes) : nodes[j].kind \in {"Let", "Function"}}}

IsSuffix(tail, whole) ==
    /\ Len(tail) <= Len(whole)
    /\ tail = SubSeq(whole, Len(whole) - Len(tail) + 1, Len(whole))

(* the nodes run_token_stream has come to, the one it is at included *)
Visited ==
    SubSeq(outcome.tokens, 1,
           IF parser_tokens = <<>> THEN Len(outcome.tokens)
           ELSE Len(outcome.tokens) - Len(parser_tokens) + 1)

(* C18: the nodes of a sequence are evaluated strictly in order and the    *)
(* result is the value of the last node, Empty for the empty sequence;     *)
(* when a node fails, no node after it is evaluated and the result is      *)
(* that SemanticError.                                                     *)
C18_InOrderUntilFailure ==
    pc \in {"run_token_stream", "evaluated"} =>
        /\ IsSuffix(parser_tokens, outcome.tokens)
        /\ DOMAIN parser_variables \subseteq StandardNames \cup NamesIn(Visited)
        /\ \A k \in 1..Len(outcome.tokens) :
              LET node == outcome.tokens[k]
                  done == k < Len(Visited) \/ (pc = "evaluated" /\ value.kind = "Ok")
              IN  /\ done /\ node.kind \in {"Let", "Function"} =>
                        node.name \in DOMAIN parser_variables
                  /\ done /\ node.kind = "Identifier" =>
                        node.name \in DOMAIN parser_variables
        /\ pc = "evaluated" /\ value.kind = "Ok" =>
              /\ parser_tokens = <<>>
              /\ outcome.tokens = <<>> => value.val = Empty
              /\ outcome.tokens # <<>> /\ OperandValue(LastNode) # <<>> =>
                    value.val = OperandValue(LastNode)[1]
        /\ pc = "evaluated" /\ value.kind # "Ok" =>
              /\ parser_tokens # <<>>
              /\ value.kind = "Err"
                    \/ (value.kind = "StackOverflow" /\ HasCall(<<Head(parser_tokens)>>))
              /\ LET failed == Head(parser_tokens) IN
                 failed.kind = "Identifier" => failed.name \notin DOMAIN parser_variables

C18_Witness ==
    /\ pc = "evaluated"
    /\ source = "let x = 2;\nnope\nfunction h() { 1 }"
    /\ value = [kind |-> "Err", msg |-> "Undefined variable"]
    /\ Len(parser_tokens) = 2
    /\ "h" \notin DOMAIN parser_variables
    /\ "x" \in DOMAIN parser_variables

-----------------------------------------------------------------------------
(* C19: the initializer of a let that scans is one node, the last one      *)
(* scanned between its = and its semicolon; with no node between them the  *)
(* scan fails whatever was emitted before the let, and a node emitted      *)
(* before the let is never its initializer.                                *)
C19_LetInitializer ==
    \A i \in NodesOfKind("Let") :
        LET binding == ForestNodes(Result)[i] IN
        binding.value # <<>> =>
            /\ \A a \in Atoms(binding.value[1]) : SpanInside(a, binding.span)
            /\ Chars(Slice(source, LastEnd(binding.value[1]), binding.span.end - 1))
                   \subseteq Whitespace

-----------------------------------------------------------------------------
(* what reading a name gives in a body called with these parameters and    *)
(* arguments from a caller with these variables; <<>> if it is unbound     *)
ReadInBody(name, params, args, caller) ==
    LET at == {j \in 1..Len(params) : params[j] = name}
    IN  IF at # {} THEN <<args[CHOOSE j \in at : \A k \in at : k <= j]>>
        ELSE IF name \in DOMAIN caller THEN <<caller[name]>>
        ELSE <<>>

(* C20: a function's body is evaluated in a copy of the caller's           *)
(* variables as they are at the call, with the parameters bound on top,    *)
(* not in the variables of the declaration: it reads what the caller has   *)
(* bound since the declaration, its own binding (so it can call itself)    *)
(* and, called from inside another function, that function's parameters    *)
(* and locals; a parameter hides a caller's binding of the same name       *)
(* inside the body only.                                                   *)
C20_CallTimeEnvironment ==
    /\ \A i \in 1..Len(CallsNow) :
          LET call == CallsNow[i]
              f == call.callee
          IN  f.kind = "Function" /\ Len(call.args) = Len(f.params)
                /\ call.depth < MaxDepth
                /\ Len(f.body) = 1 /\ f.body[1].kind = "Identifier" =>
                  LET read == ReadInBody(f.body[1].name, f.params, call.args, call.entry)
                  IN  /\ read = <<>> => call.result.kind = "Err"
                      /\ read # <<>> => call.result.kind = "Ok" /\ call.result.val = read[1]
                      /\ call.result.variables = call.entry
    /\ pc = "evaluated" /\ source = SelfCall =>
          value = [kind |-> "Ok", val |-> NumberValue(Rat(7, 1))]

C20_Witness ==
    /\ source = "function f() { b }\nfunction g(a) { let b = 2; f() }\nlet y = 5;\ng(1)"
    /\ \E i \in 1..Len(CallsNow) :
          /\ CallsNow[i].name = "f"
          /\ CallsNow[i].depth = 1
          /\ "b" \notin DOMAIN parser_variables
          /\ CallsNow[i].entry["a"] = NumberValue(Rat(1, 1))
          /\ CallsNow[i].entry["y"] = NumberValue(Rat(5, 1))
          /\ CallsNow[i].result.val = NumberValue(Rat(2, 1))

-----------------------------------------------------------------------------
(* the argument nodes taken one by one from the left, each in the          *)
(* variables the one before it left, up to the first that fails            *)
RECURSIVE ArgumentsInOrder(_, _, _)
ArgumentsInOrder(before, args, done) ==
    IF done = Len(args) THEN [kind |-> "Ok", variables |-> before]
    ELSE LET r == parse_token(before, args[done + 1], 0) IN
         IF r.kind = "Ok" THEN ArgumentsInOrder(r.variables, args, done + 1)
         ELSE [kind |-> r.kind, variables |-> r.variables, msg |-> r.msg]

Failed(msg) == [kind |-> "Err", msg |-> msg]

(* C21: evaluating a call resolves the callee's name first, so a call of   *)
(* an unbound name fails with no argument evaluated; then the arguments    *)
(* are evaluated from the left in the caller's variables, and only then    *)
(* come the callable check and the count check: what the arguments wrote   *)
(* stays in the caller when the call fails as not callable or on its       *)
(* count, and a failing argument's error is the one reported.              *)
C21_CallOrdering ==
    [][pc = "run_token_stream" /\ parser_tokens # <<>>
          /\ Head(parser_tokens).kind = "Call" =>
        LET call == Head(parser_tokens)
            before == parser_variables
        IN  IF call.name \notin DOMAIN before
            THEN /\ value' = Failed("Undefined variable")
                 /\ parser_variables' = before
            ELSE
            LET callee == before[call.name]
                a == ArgumentsInOrder(before, call.args, 0)
            IN  /\ parser_variables' = a.variables
                /\ a.kind # "Ok" => value' = [kind |-> a.kind, msg |-> a.msg]
                /\ a.kind = "Ok" /\ callee.kind \notin {"Function", "NativeFunction"} =>
                       value' = Failed("is not callable")
                /\ a.kind = "Ok" /\ callee.kind = "Function"
                       /\ Len(callee.params) # Len(call.args) =>
                       value' = Failed(ArityError)]_vars

C21_Witness ==
    /\ source = OrderPrelude \o "n(let w = 4;, let n = f;)"
    /\ pc = "evaluated"
    /\ value = Failed("is not callable")
    /\ parser_variables["w"] = NumberValue(Rat(4, 1))
    /\ parser_variables["n"].kind = "Function"

====
